---- MODULE Spec2Model ----
(***************************************************************************)
(* Model of frontend/app.js: the client-side dual-transport messaging      *)
(* orchestrator (WebSocket with REST fallback).                            *)
(*                                                                         *)
(* A WebSocket object is represented by its readyState.  state.websocket   *)
(* is the readyState of the object the field refers to, or "null".         *)
(* Objects the field no longer refers to, but whose handlers can still     *)
(* fire, are counted in  orphans  by readyState.                           *)
(* Temperatures are in tenths (7 stands for 0.7).  Message timestamps and  *)
(* the DOM rendering are left out.  checkApiHealth and loadTheme touch no  *)
(* variable of the model and are left out of init.                         *)
(*                                                                         *)
(* Every step records its code path in  last , the transmissions it made   *)
(* or the inbound payload it handled in  wire  and the number of error     *)
(* notices (showError) in  notices .                                       *)
(*                                                                         *)
(* Specifications: Spec (the exchanges over one channel at a time),        *)
(* ConnSpec and FairConnSpec (the connection lifecycle with preference     *)
(* changes), SettingsSpec (the settings controls and page reloads),        *)
(* SliderSpec (the exchanges with the sliders moving), FullSpec (the whole *)
(* client without the sliders).                                            *)
(***************************************************************************)
EXTENDS Integers, Sequences, FiniteSets, TLC

\* ---- bounds of the model ----
MaxLog == 4
MaxRest == 1
MaxOutstanding == 2
MaxOrphans == 1
MaxTimers == 2
MaxResets == 1

\* ---- program constants (CONFIG) ----
defaultTemperature == 7
defaultMaxLength == 1000
defaultUseWebSocket == TRUE

\* ---- input domains ----
Texts == {"hi"}
Responses == {"hello", "ok"}
Temperatures == {defaultTemperature, 12}
MaxLengths == {defaultMaxLength, 500}
Keys == {"temperature", "maxLength", "useWebSocket"}

VARIABLES pc, messages, isTyping, websocket, settings, useWebSocketChecked,
          storage, status, orphans, timers, outstanding, restInFlight,
          resetInFlight, last, wire, notices, hist

vars == <<pc, messages, isTyping, websocket, settings, useWebSocketChecked,
          storage, status, orphans, timers, outstanding, restInFlight,
          resetInFlight, last, wire, notices, hist>>

\* ---- state.settings initial value ----
DefaultSettings ==
    [temperature |-> defaultTemperature,
     maxLength |-> defaultMaxLength,
     useWebSocket |-> defaultUseWebSocket]

\* ---- localStorage['chatbot-settings'] ----
NullItem == [kind |-> "null", obj |-> <<>>]
CorruptItem == [kind |-> "corrupt", obj |-> <<>>]
JsonItem(o) == [kind |-> "json", obj |-> o]

\* JSON.stringify writing maxLength under the key of the REST body
Stringify_snakeCase(s) ==
    JsonItem([k \in {"temperature", "max_length", "useWebSocket"} |->
                 IF k = "max_length" THEN s.maxLength ELSE s[k]])

\* JSON.stringify(state.settings): every key of the settings object
Stringify(s) == JsonItem([k \in Keys |-> s[k]])

\* the spread with its operands swapped: { ...JSON.parse(saved), ...state.settings }
Merge_defaultsWin(s, o) == s

\* { ...state.settings, ...JSON.parse(saved) }
Merge(s, o) ==
    [temperature |-> IF "temperature" \in DOMAIN o THEN o["temperature"] ELSE s.temperature,
     maxLength |-> IF "maxLength" \in DOMAIN o THEN o["maxLength"] ELSE s.maxLength,
     useWebSocket |-> IF "useWebSocket" \in DOMAIN o THEN o["useWebSocket"] ELSE s.useWebSocket]

\* ---- helpers translated from the source ----
\* addMessage with unshift in place of push
addMessage_unshift(log, type, content) == <<[type |-> type, content |-> content]>> \o log

addMessage(log, type, content) == Append(log, [type |-> type, content |-> content])

updateConnectionStatus(connected) == IF connected THEN "websocket" ELSE "rest"

NoOrphans == [CONNECTING |-> 0, OPEN |-> 0, CLOSING |-> 0]

OrphanCount(o) == o.CONNECTING + o.OPEN + o.CLOSING

\* the object state.websocket referred to keeps living when the field is
\* overwritten, unless it is already CLOSED (no handler of it fires again)
Orphaned(o, ws) ==
    IF ws \in {"CONNECTING", "OPEN", "CLOSING"} THEN [o EXCEPT ![ws] = @ + 1] ELSE o

\* connectWebSocket(): the early return of line 219
connectCreates(ws) == ws # "OPEN"

\* connectWebSocket(): result on (websocket, orphans)
connectWebSocket(ws, o) ==
    IF connectCreates(ws)
    THEN [websocket |-> "CONNECTING", orphans |-> Orphaned(o, ws), created |-> TRUE]
    ELSE [websocket |-> ws, orphans |-> o, created |-> FALSE]

\* WebSocket.close(): CONNECTING and OPEN go to CLOSING, else no effect
closeCall(ws) == IF ws \in {"CONNECTING", "OPEN"} THEN "CLOSING" ELSE ws

\* disconnectWebSocket(): result on (websocket, orphans, status)
disconnectWebSocket(ws, o, st) ==
    IF ws # "null"
    THEN [websocket |-> "null", orphans |-> Orphaned(o, closeCall(ws)),
          status |-> updateConnectionStatus(FALSE)]
    ELSE [websocket |-> ws, orphans |-> o, status |-> st]

\* exchanges accepted and not yet answered
InFlight == outstanding + restInFlight

\* channels that are not closed: the current one and the orphans
LiveChannels ==
    (IF websocket \in {"CONNECTING", "OPEN", "CLOSING"} THEN 1 ELSE 0) + OrphanCount(orphans)

\* ---- history of the run, read by the properties only ----
\* disconnected: disconnectWebSocket ran and connectWebSocket was not called
\*   from the checkbox or init since
\* pendingReconnect: the current channel closed while the preference was
\*   persistent and no channel was created since
\* nIssued, nReplied, altOK: user messages accepted and replies received since
\*   the log was last empty with nothing in flight, and whether they strictly
\*   alternated (the counts are dropped once they did not)
\* hasSaved, saved: whether saveSettings has written the item, in this page
\*   session or an earlier one, and the settings object it last wrote
NoHist ==
    [disconnected |-> FALSE, pendingReconnect |-> FALSE,
     nIssued |-> 0, nReplied |-> 0, altOK |-> TRUE,
     hasSaved |-> FALSE, saved |-> DefaultSettings]

Saved(h, s, writeFails) ==
    IF writeFails THEN h ELSE [h EXCEPT !.hasSaved = TRUE, !.saved = s]

Broken(h) == [h EXCEPT !.nIssued = 0, !.nReplied = 0, !.altOK = FALSE]

Issued(h) ==
    IF h.altOK /\ h.nIssued = h.nReplied THEN [h EXCEPT !.nIssued = @ + 1] ELSE Broken(h)

Replied(h) ==
    IF h.altOK /\ h.nIssued = h.nReplied + 1 THEN [h EXCEPT !.nReplied = @ + 1] ELSE Broken(h)

Restarted(h, clean) ==
    IF clean THEN [h EXCEPT !.nIssued = 0, !.nReplied = 0, !.altOK = TRUE] ELSE Broken(h)

\* an object holding the keys D of a settings object
PartialObject(D, t, m, u) ==
    [k \in D |-> CASE k = "temperature" -> t
                   [] k = "maxLength" -> m
                   [] OTHER -> u]

\* what getItem can find: nothing, a string JSON.parse rejects, or an object
\* with any subset of the keys
InitStorages ==
    {NullItem, CorruptItem} \cup
    {JsonItem(PartialObject(D, t, m, u)) :
        D \in SUBSET Keys, t \in Temperatures, m \in MaxLengths, u \in BOOLEAN}

\* the state after the script is loaded, before init runs.  The checkbox of
\* the settings dialog starts as the markup sets it: in step with
\* CONFIG.useWebSocket.
InitWith(storages) ==
    /\ pc = "loaded"
    /\ messages = <<>>
    /\ isTyping = FALSE
    /\ websocket = "null"
    /\ settings = DefaultSettings
    /\ useWebSocketChecked = defaultUseWebSocket
    /\ storage \in storages
    /\ status = "unset"
    /\ orphans = NoOrphans
    /\ timers = 0
    /\ outstanding = 0
    /\ restInFlight = 0
    /\ resetInFlight = 0
    /\ last = "none"
    /\ wire = <<>>
    /\ notices = 0
    /\ hist = NoHist

Init == InitWith({NullItem, JsonItem([k \in {"useWebSocket"} |-> FALSE])})

\* loadSettings(): the settings after it ("throw" when JSON.parse throws)
loadSettings(s, item) ==
    CASE item.kind = "null" -> s
      [] item.kind = "corrupt" -> "throw"
      [] OTHER -> Merge(s, item.obj)

\* init(): loadSettings, setupEventListeners, connectWebSocket.
\* An exception of loadSettings leaves init before the listeners are set up.
init ==
    /\ pc = "loaded"
    /\ IF storage.kind = "corrupt"
       THEN /\ pc' = "crashed"
            /\ last' = "init:threw"
            /\ UNCHANGED <<settings, useWebSocketChecked, websocket, orphans, hist>>
       ELSE LET s == loadSettings(settings, storage)
                c == IF s.useWebSocket THEN connectWebSocket(websocket, orphans)
                     ELSE [websocket |-> websocket, orphans |-> orphans, created |-> FALSE]
            IN /\ pc' = "ready"
               /\ settings' = s
               /\ useWebSocketChecked' =
                     IF storage.kind = "json" THEN s.useWebSocket ELSE useWebSocketChecked
               /\ websocket' = c.websocket
               /\ orphans' = c.orphans
               /\ last' = "init"
               /\ UNCHANGED hist
    /\ wire' = <<>>
    /\ notices' = 0
    /\ UNCHANGED <<messages, isTyping, storage, status, timers, outstanding,
                   restInFlight, resetInFlight>>

\* ---- settings controls (setupEventListeners) ----
\* saveSettings(): localStorage.setItem, which can throw (storage refused)
saveSettings(s, writeFails) == IF writeFails THEN storage ELSE Stringify(s)

\* 'input' on the temperature slider
TemperatureInput(v, writeFails) ==
    /\ pc = "ready"
    /\ settings' = [settings EXCEPT !.temperature = v]
    /\ storage' = saveSettings(settings', writeFails)
    /\ hist' = Saved(hist, settings', writeFails)
    /\ last' = IF writeFails THEN "temperature:threw" ELSE "temperature"
    /\ wire' = <<>>
    /\ notices' = 0
    /\ UNCHANGED <<pc, messages, isTyping, websocket, useWebSocketChecked, status,
                   orphans, timers, outstanding, restInFlight, resetInFlight>>

\* 'input' on the max length slider
MaxLengthInput(v, writeFails) ==
    /\ pc = "ready"
    /\ settings' = [settings EXCEPT !.maxLength = v]
    /\ storage' = saveSettings(settings', writeFails)
    /\ hist' = Saved(hist, settings', writeFails)
    /\ last' = IF writeFails THEN "maxLength:threw" ELSE "maxLength"
    /\ wire' = <<>>
    /\ notices' = 0
    /\ UNCHANGED <<pc, messages, isTyping, websocket, useWebSocketChecked, status,
                   orphans, timers, outstanding, restInFlight, resetInFlight>>

\* 'change' on the useWebSocket checkbox: the browser flips the box, then the
\* handler stores the value, saves, and connects or disconnects
UseWebSocketChange(writeFails) ==
    LET checked == ~useWebSocketChecked
        c == connectWebSocket(websocket, orphans)
        d == disconnectWebSocket(websocket, orphans, status)
    IN /\ pc = "ready"
       /\ useWebSocketChecked' = checked
       /\ settings' = [settings EXCEPT !.useWebSocket = checked]
       /\ storage' = saveSettings(settings', writeFails)
       /\ IF writeFails
          THEN /\ last' = "useWebSocket:threw"
               /\ UNCHANGED <<websocket, orphans, status, hist>>
          ELSE IF checked
          THEN /\ OrphanCount(c.orphans) <= MaxOrphans
               /\ websocket' = c.websocket
               /\ orphans' = c.orphans
               /\ last' = "connect"
               /\ hist' = [Saved(hist, settings', FALSE) EXCEPT
                              !.disconnected = FALSE,
                              !.pendingReconnect = @ /\ ~c.created]
               /\ UNCHANGED status
          ELSE /\ OrphanCount(d.orphans) <= MaxOrphans
               /\ websocket' = d.websocket
               /\ orphans' = d.orphans
               /\ status' = d.status
               /\ last' = "disconnect"
               /\ hist' = [Saved(hist, settings', FALSE) EXCEPT !.disconnected = TRUE]
       /\ wire' = <<>>
       /\ notices' = 0
       /\ UNCHANGED <<pc, messages, isTyping, timers, outstanding, restInFlight,
                      resetInFlight>>

\* ---- page reload ----
\* the page is loaded again: the script builds a fresh state object and the
\* sockets, timers and requests of the old page are gone; localStorage stays
Reload ==
    /\ pc # "loaded"
    /\ pc' = "loaded"
    /\ messages' = <<>>
    /\ isTyping' = FALSE
    /\ websocket' = "null"
    /\ settings' = DefaultSettings
    /\ useWebSocketChecked' = defaultUseWebSocket
    /\ status' = "unset"
    /\ orphans' = NoOrphans
    /\ timers' = 0
    /\ outstanding' = 0
    /\ restInFlight' = 0
    /\ resetInFlight' = 0
    /\ last' = "reload"
    /\ wire' = <<>>
    /\ notices' = 0
    /\ hist' = [NoHist EXCEPT !.hasSaved = hist.hasSaved, !.saved = hist.saved]
    /\ UNCHANGED storage

\* ---- sending ----
RawInputs == Texts \cup {"", " "}

\* String.prototype.trim on the inputs of the model
Trim(raw) == IF raw = " " THEN "" ELSE raw

\* sendMessage(): the guard of line 147
sendAccepts(message, typing) == ~(message = "" \/ typing)

\* the transport choice without the readyState test
useWsPath_noReadyState(s, ws) == s.useWebSocket /\ ws = "CONNECTING"

\* sendMessage(): the transport choice of line 164
useWsPath(s, ws) == s.useWebSocket /\ ws = "OPEN"

\* the outbound frame built from CONFIG in place of state.settings
wsFrame_fromConfig(message, s) ==
    [channel |-> "ws", message |-> message, temperature |-> defaultTemperature,
     maxLength |-> defaultMaxLength]

\* the outbound frame of sendViaWebSocket
wsFrame(message, s) ==
    [channel |-> "ws", message |-> message, temperature |-> s.temperature,
     maxLength |-> s.maxLength]

\* the request of sendViaRestAPI
restRequest(message, s) ==
    [channel |-> "rest", message |-> message, temperature |-> s.temperature,
     max_length |-> s.maxLength]

\* sendViaRestAPI() up to the await: the requests it puts on the wire
restSends(message, s) == <<restRequest(message, s)>>

\* sendViaWebSocket() whose catch branch only reports the error
wsSends_dropOnThrow(message, s, sendThrows) ==
    IF sendThrows THEN <<>> ELSE <<wsFrame(message, s)>>

\* sendViaWebSocket(): the transmissions it makes, the catch branch included
wsSends(message, s, sendThrows) ==
    IF sendThrows THEN restSends(message, s) ELSE <<wsFrame(message, s)>>

\* sendMessage() up to its first suspension point, sendViaWebSocket and the
\* synchronous part of sendViaRestAPI included
sendMessage(raw, sendThrows) ==
    LET message == Trim(raw)
        ws == useWsPath(settings, websocket)
        sent == IF ws THEN wsSends(message, settings, sendThrows)
                ELSE restSends(message, settings)
        nWs == Cardinality({i \in DOMAIN sent : sent[i].channel = "ws"})
        nRest == Cardinality({i \in DOMAIN sent : sent[i].channel = "rest"})
    IN /\ pc = "ready"
       /\ sendThrows => ws /\ sendAccepts(message, isTyping)
       /\ IF ~sendAccepts(message, isTyping)
          THEN /\ last' = "send:rejected"
               /\ wire' = <<>>
               /\ notices' = 0
               /\ UNCHANGED <<messages, isTyping, outstanding, restInFlight, hist>>
          ELSE /\ Len(messages) + InFlight + 2 <= MaxLog
               /\ outstanding + nWs <= MaxOutstanding
               /\ restInFlight + nRest <= MaxRest
               /\ messages' = addMessage(messages, "user", message)
               /\ hist' = Issued(hist)
               /\ wire' = sent
               /\ outstanding' = outstanding + nWs
               /\ restInFlight' = restInFlight + nRest
               /\ isTyping' = IF nRest > 0 THEN TRUE ELSE isTyping
               /\ notices' = IF ws /\ sendThrows THEN 1 ELSE 0
               /\ last' = IF ~ws THEN "send:rest"
                          ELSE IF sendThrows THEN "send:wsThrew" ELSE "send:ws"
       /\ UNCHANGED <<pc, websocket, settings, useWebSocketChecked, storage, status,
                      orphans, timers, resetInFlight>>

RestOutcomes == {"ok", "httpError", "networkError", "badBody"}

\* sendViaRestAPI() with a catch block that swallows the failure
restResult_silentCatch(log, outcome, response) ==
    IF outcome = "ok"
    THEN [messages |-> addMessage(log, "bot", response), notices |-> 0]
    ELSE [messages |-> log, notices |-> 0]

\* sendViaRestAPI() after the await: what the try/catch appends and reports
restResult(log, outcome, response) ==
    IF outcome = "ok"
    THEN [messages |-> addMessage(log, "bot", response), notices |-> 0]
    ELSE [messages |-> log, notices |-> 1]

\* sendViaRestAPI() after the await: response handling, catch and finally
RestCompletes(outcome, response) ==
    LET r == restResult(messages, outcome, response)
    IN /\ restInFlight > 0
       /\ restInFlight' = restInFlight - 1
       /\ messages' = r.messages
       /\ notices' = r.notices
       /\ isTyping' = FALSE
       /\ hist' = IF outcome = "ok" THEN Replied(hist) ELSE hist
       /\ last' = "rest:" \o outcome
       /\ wire' = <<>>
       /\ UNCHANGED <<pc, websocket, settings, useWebSocketChecked, storage, status,
                      orphans, timers, outstanding, resetInFlight>>

\* ---- persistent channel: lifecycle events ----
\* onopen of the object state.websocket refers to
WsOpen ==
    /\ websocket = "CONNECTING"
    /\ websocket' = "OPEN"
    /\ status' = updateConnectionStatus(TRUE)
    /\ last' = "open"
    /\ wire' = <<>>
    /\ notices' = 0
    /\ UNCHANGED <<pc, messages, isTyping, settings, useWebSocketChecked, storage,
                   orphans, timers, outstanding, restInFlight, resetInFlight, hist>>

\* onopen of an object the field no longer refers to
OrphanOpen ==
    /\ orphans.CONNECTING > 0
    /\ orphans' = [orphans EXCEPT !.CONNECTING = @ - 1, !.OPEN = @ + 1]
    /\ status' = updateConnectionStatus(TRUE)
    /\ last' = "orphanOpen"
    /\ wire' = <<>>
    /\ notices' = 0
    /\ UNCHANGED <<pc, messages, isTyping, websocket, settings, useWebSocketChecked,
                   storage, timers, outstanding, restInFlight, resetInFlight, hist>>

\* onclose without the reconnection attempt
closeSchedules_never(s) == FALSE

\* onclose: does the handler schedule the 5 s reconnect timer
closeSchedules(s) == s.useWebSocket

\* the peer starts the closing handshake: readyState OPEN -> CLOSING; no
\* handler runs, frames not yet answered are lost
PeerStartsClose ==
    /\ websocket = "OPEN"
    /\ websocket' = "CLOSING"
    /\ outstanding' = 0
    /\ last' = "closing"
    /\ wire' = <<>>
    /\ notices' = 0
    /\ UNCHANGED <<pc, messages, isTyping, settings, useWebSocketChecked, storage,
                   status, orphans, timers, restInFlight, resetInFlight, hist>>

\* the object state.websocket refers to closes: onerror (when the close is a
\* failure) then onclose
WsClose(withError) ==
    /\ websocket \in {"CONNECTING", "OPEN", "CLOSING"}
    /\ closeSchedules(settings) => timers < MaxTimers
    /\ websocket' = "CLOSED"
    /\ outstanding' = 0
    /\ status' = updateConnectionStatus(FALSE)
    /\ timers' = IF closeSchedules(settings) THEN timers + 1 ELSE timers
    /\ last' = IF withError THEN "error+close" ELSE "close"
    /\ hist' = [hist EXCEPT !.pendingReconnect = @ \/ settings.useWebSocket]
    /\ wire' = <<>>
    /\ notices' = 0
    /\ UNCHANGED <<pc, messages, isTyping, settings, useWebSocketChecked, storage,
                   orphans, restInFlight, resetInFlight>>

\* an object the field no longer refers to closes: same handlers
OrphanClose(rs, withError) ==
    /\ orphans[rs] > 0
    /\ closeSchedules(settings) => timers < MaxTimers
    /\ orphans' = [orphans EXCEPT ![rs] = @ - 1]
    /\ status' = updateConnectionStatus(FALSE)
    /\ timers' = IF closeSchedules(settings) THEN timers + 1 ELSE timers
    /\ last' = IF withError THEN "orphanError+close" ELSE "orphanClose"
    /\ wire' = <<>>
    /\ notices' = 0
    /\ UNCHANGED <<pc, messages, isTyping, websocket, settings, useWebSocketChecked,
                   storage, outstanding, restInFlight, resetInFlight, hist>>

\* the setTimeout callback of onclose
TimerFires ==
    LET c == connectWebSocket(websocket, orphans)
    IN /\ timers > 0
       /\ OrphanCount(c.orphans) <= MaxOrphans
       /\ timers' = timers - 1
       /\ websocket' = c.websocket
       /\ orphans' = c.orphans
       /\ last' = "timer"
       /\ hist' = [hist EXCEPT !.pendingReconnect = @ /\ ~c.created]
       /\ wire' = <<>>
       /\ notices' = 0
       /\ UNCHANGED <<pc, messages, isTyping, settings, useWebSocketChecked, storage,
                      status, outstanding, restInFlight, resetInFlight>>

\* ---- persistent channel: inbound payloads ----
EventKinds == {"typing", "message", "error", "unknownType", "undecodable"}

\* the payload of event.data as the handler reads it
inbound(kind, flag, response) ==
    [channel |-> "in", kind |-> kind,
     isTyping |-> kind = "typing" /\ flag,
     response |-> IF kind = "message" THEN response ELSE ""]

\* onmessage whose message branch drops the reply
onmessage_dropReply(kind, flag, response, log, typing) ==
    CASE kind = "typing" -> [messages |-> log, isTyping |-> flag, notices |-> 0]
      [] kind \in {"message", "error"} ->
            [messages |-> log, isTyping |-> FALSE,
             notices |-> IF kind = "error" THEN 1 ELSE 0]
      [] OTHER -> [messages |-> log, isTyping |-> typing, notices |-> 0]

\* the onmessage handler: result on (messages, isTyping) and the notices.
\* JSON.parse throws on an undecodable payload and the handler ends there.
onmessage(kind, flag, response, log, typing) ==
    CASE kind = "typing" -> [messages |-> log, isTyping |-> flag, notices |-> 0]
      [] kind = "message" ->
            [messages |-> addMessage(log, "bot", response), isTyping |-> FALSE,
             notices |-> 0]
      [] kind = "error" -> [messages |-> log, isTyping |-> FALSE, notices |-> 1]
      [] kind = "unknownType" -> [messages |-> log, isTyping |-> typing, notices |-> 0]
      [] kind = "undecodable" -> [messages |-> log, isTyping |-> typing, notices |-> 0]

\* onmessage of the object state.websocket refers to.  The peer answers
\* (message or error) only frames it was sent.
WsMessage(kind, flag, response) ==
    LET r == onmessage(kind, flag, response, messages, isTyping)
    IN /\ websocket = "OPEN"
       /\ kind \in {"message", "error"} => outstanding > 0
       /\ kind # "typing" => ~flag
       /\ messages' = r.messages
       /\ isTyping' = r.isTyping
       /\ notices' = r.notices
       /\ outstanding' = IF kind \in {"message", "error"} THEN outstanding - 1
                         ELSE outstanding
       /\ hist' = IF kind = "message" THEN Replied(hist) ELSE hist
       /\ last' = "ws:" \o kind
       /\ wire' = <<inbound(kind, flag, response)>>
       /\ UNCHANGED <<pc, websocket, settings, useWebSocketChecked, storage, status,
                      orphans, timers, restInFlight, resetInFlight>>

\* onmessage of an open object the field no longer refers to; it was sent no
\* frame, so the peer has nothing to answer on it
OrphanMessage(kind, flag) ==
    LET r == onmessage(kind, flag, "", messages, isTyping)
    IN /\ orphans.OPEN > 0
       /\ kind \in {"typing", "unknownType", "undecodable"}
       /\ kind # "typing" => ~flag
       /\ messages' = r.messages
       /\ isTyping' = r.isTyping
       /\ notices' = r.notices
       /\ last' = "orphan:" \o kind
       /\ wire' = <<inbound(kind, flag, "")>>
       /\ UNCHANGED <<pc, websocket, settings, useWebSocketChecked, storage, status,
                      orphans, timers, outstanding, restInFlight, resetInFlight, hist>>

\* ---- reset ----
\* resetConversation() up to the await
ResetClick(confirmed) ==
    /\ pc = "ready"
    /\ confirmed => resetInFlight < MaxResets
    /\ resetInFlight' = IF confirmed THEN resetInFlight + 1 ELSE resetInFlight
    /\ last' = IF confirmed THEN "reset:sent" ELSE "reset:declined"
    /\ wire' = <<>>
    /\ notices' = 0
    /\ UNCHANGED <<pc, messages, isTyping, websocket, settings, useWebSocketChecked,
                   storage, status, orphans, timers, outstanding, restInFlight, hist>>

ResetOutcomes == {"ok", "httpError", "networkError"}

\* resetConversation() after the await: the log
resetLog(log, outcome) == IF outcome = "ok" THEN <<>> ELSE log

\* resetConversation() after the await
ResetCompletes(outcome) ==
    /\ resetInFlight > 0
    /\ resetInFlight' = resetInFlight - 1
    /\ messages' = resetLog(messages, outcome)
    /\ notices' = IF outcome = "networkError" THEN 1 ELSE 0
    /\ hist' = IF outcome = "ok" THEN Restarted(hist, InFlight = 0) ELSE hist
    /\ last' = "reset:" \o outcome
    /\ wire' = <<>>
    /\ UNCHANGED <<pc, isTyping, websocket, settings, useWebSocketChecked, storage,
                   status, orphans, timers, outstanding, restInFlight>>

\* ---- specifications ----
\* the current channel: creation at init, open, close, retry
ChannelNext ==
    \/ init
    \/ WsOpen
    \/ PeerStartsClose
    \/ \E e \in BOOLEAN : WsClose(e)
    \/ TimerFires

\* sending, fallback completion, inbound payloads
TalkNext ==
    \/ \E raw \in RawInputs, t \in BOOLEAN : sendMessage(raw, t)
    \/ \E o \in RestOutcomes, r \in Responses : RestCompletes(o, r)
    \/ \E k \in EventKinds, b \in BOOLEAN, r \in Responses : WsMessage(k, b, r)

\* the exchanges: the above and reset
ExchangeNext ==
    \/ TalkNext
    \/ \E c \in BOOLEAN : ResetClick(c)
    \/ \E o \in ResetOutcomes : ResetCompletes(o)

\* the preference checkbox and the channels it leaves behind
ToggleNext ==
    \/ \E f \in BOOLEAN : UseWebSocketChange(f)
    \/ OrphanOpen
    \/ \E rs \in {"CONNECTING", "OPEN", "CLOSING"}, e \in BOOLEAN : OrphanClose(rs, e)

\* the sliders of the settings dialog
SliderNext ==
    \/ \E v \in Temperatures, f \in BOOLEAN : TemperatureInput(v, f)
    \/ \E v \in MaxLengths, f \in BOOLEAN : MaxLengthInput(v, f)

\* the settings controls across page loads
SettingsNext ==
    \/ init
    \/ SliderNext
    \/ \E f \in BOOLEAN : UseWebSocketChange(f)
    \/ Reload

Next == ChannelNext \/ ExchangeNext

ConnNext == ChannelNext \/ ToggleNext

FullNext ==
    \/ ChannelNext
    \/ ExchangeNext
    \/ ToggleNext
    \/ \E k \in EventKinds, b \in BOOLEAN : OrphanMessage(k, b)

\* the exchanges over one channel at a time, with the transport preference
\* as loaded at init (persistent by default, requestOnly when stored so)
Spec == Init /\ [][Next]_vars

\* the connection lifecycle alone, preference changes included (no action
\* outside it writes websocket, orphans, timers, status or the preference)
ConnSpec == Init /\ [][ConnNext]_vars

\* the browser runs a due timer callback
FairConnSpec == ConnSpec /\ WF_vars(TimerFires)

\* the settings controls and page reloads, from every stored item; the
\* events of the channels touch neither the settings nor the stored item
SettingsInit == InitWith(InitStorages)

SettingsSpec == SettingsInit /\ [][SettingsNext]_vars

\* Spec where a due timer callback runs, a fetch settles, and the peer
\* answers (message or error) a frame it holds while the channel stays open
FairSpec ==
    /\ Spec
    /\ WF_vars(TimerFires)
    /\ WF_vars(\E o \in RestOutcomes, r \in Responses : RestCompletes(o, r))
    /\ WF_vars(\E k \in {"message", "error"}, r \in Responses : WsMessage(k, FALSE, r))

\* sending and receiving over one channel while the sliders move
SliderSpec == Init /\ [][ChannelNext \/ TalkNext \/ SliderNext]_vars

\* the whole client
FullSpec == Init /\ [][FullNext]_vars

TypeOK ==
    /\ pc \in {"loaded", "ready", "crashed"}
    /\ isTyping \in BOOLEAN
    /\ websocket \in {"null", "CONNECTING", "OPEN", "CLOSING", "CLOSED"}
    /\ Len(messages) <= MaxLog
    /\ timers \in 0..MaxTimers
    /\ outstanding \in 0..MaxOutstanding
    /\ restInFlight \in 0..MaxRest
    /\ OrphanCount(orphans) <= MaxOrphans

\* ---- properties ----
SendAccepted == {"send:ws", "send:wsThrew", "send:rest"}

IsPrefix(a, b) == Len(a) <= Len(b) /\ SubSeq(b, 1, Len(a)) = a

Roles(log) == [i \in DOMAIN log |-> log[i].type]

\* C1: every accepted sendMessage makes exactly one transmission (one frame
\* on the persistent channel or one POST on the fallback); when the
\* persistent send throws, that one transmission is a fallback request.
C1_ExactlyOneTransmission ==
    last \in SendAccepted =>
        /\ Len(wire) = 1
        /\ last = "send:ws" => wire[1].channel = "ws"
        /\ last \in {"send:wsThrew", "send:rest"} => wire[1].channel = "rest"

C1_Witness == last = "send:wsThrew" /\ Len(wire) = 1 /\ restInFlight = 1

\* C2: while an accepted message still waits for its reply or error, on either
\* transport, no further sendMessage call is accepted.
C2_OneExchangeInFlight == [][(InFlight > 0) => (last' \notin SendAccepted)]_vars

\* C3: once disconnectWebSocket has run, no channel is created until
\* connectWebSocket is called again from the checkbox or init, even when a
\* reconnect timer of an earlier close is still pending.
C3_DisconnectCancelsRetry == hist.disconnected => websocket = "null"

\* C4: a close of the current channel while the preference is persistent is
\* eventually followed by the creation of a new channel (the retry timer is
\* fair, the number of retries unbounded); a close while the preference is
\* requestOnly schedules no timer.
C4_Reconnects ==
    /\ hist.pendingReconnect ~> ~hist.pendingReconnect
    /\ [][(last' \in {"close", "error+close", "orphanClose", "orphanError+close"}
             /\ ~settings.useWebSocket) => timers' = timers]_vars

C4_Witness == last = "timer" /\ websocket = "CONNECTING" /\ settings.useWebSocket

\* C5: connectWebSocket called while the current channel is connecting or
\* connected creates no channel: no step taken from such a state raises the
\* number of channels that are not closed.
C5_ConnectIsIdempotent ==
    [][(websocket \in {"CONNECTING", "OPEN"}) => (LiveChannels' <= LiveChannels)]_vars

\* C6: an inbound payload that is undecodable or of an unknown type leaves
\* the log unchanged and emits exactly one error notice.
C6_MalformedPayloadNotice ==
    [][(last' \in {"ws:unknownType", "ws:undecodable",
                   "orphan:unknownType", "orphan:undecodable"})
         => (messages' = messages /\ notices' = 1)]_vars

\* C7: a message accepted while the preference is persistent and the channel
\* is connected makes no fallback request unless the persistent send throws.
C7_NoFallbackWhenConnected ==
    [][(last' \in SendAccepted /\ settings.useWebSocket /\ websocket = "OPEN"
          /\ notices' = 0)
         => /\ restInFlight' = restInFlight
            /\ \A i \in DOMAIN wire' : wire'[i].channel # "rest"]_vars

C7_Witness ==
    /\ last = "send:ws"
    /\ settings.useWebSocket /\ websocket = "OPEN"
    /\ Len(wire) = 1 /\ restInFlight = 0

\* C8: after N user messages, each followed by exactly one received reply,
\* the log holds exactly 2N entries with roles user, bot, user, bot, ...
C8_AlternatingLog ==
    (hist.altOK /\ hist.nIssued = hist.nReplied) =>
        /\ Len(messages) = 2 * hist.nIssued
        /\ \A i \in DOMAIN messages :
              messages[i].type = IF i % 2 = 1 THEN "user" ELSE "bot"

C8_Witness ==
    /\ hist.altOK /\ hist.nIssued = 2 /\ hist.nReplied = 2
    /\ Roles(messages) = <<"user", "bot", "user", "bot">>

\* C9 as stated: across every step the log before is a prefix of the log after.
C9_AppendOnly == [][IsPrefix(messages, messages')]_vars

\* C9 amended: across every step other than a successful reset the log before
\* is a prefix of the log after; a successful reset empties the log.
C9_AppendOnlyBetweenResets ==
    [][IF last' = "reset:ok" THEN messages' = <<>>
       ELSE IsPrefix(messages, messages')]_vars

C9_Witness == Len(messages) >= 3 /\ last \in {"rest:ok", "ws:message"}

\* C10: a fallback round trip ends with the busy flag cleared; a success
\* appends exactly one assistant message and emits no error notice, any
\* failure appends nothing and emits exactly one error notice.
C10_RestRoundTrip ==
    [][(last' \in {"rest:" \o o : o \in RestOutcomes}) =>
         /\ isTyping' = FALSE
         /\ IF last' = "rest:ok"
            THEN /\ Len(messages') = Len(messages) + 1
                 /\ SubSeq(messages', 1, Len(messages)) = messages
                 /\ messages'[Len(messages')].type = "bot"
                 /\ notices' = 0
            ELSE /\ messages' = messages
                 /\ notices' = 1]_vars

C10_Witness == last = "rest:httpError" /\ ~isTyping /\ notices = 1 /\ Len(messages) >= 1

\* C11: settings saved by saveSettings and loaded by the next page load are
\* the settings that were saved: after init, the in-memory settings equal the
\* settings object last written to the store.
C11_SaveLoadRoundTrip == (last = "init" /\ hist.hasSaved) => settings = hist.saved

C11_Witness ==
    /\ last = "init" /\ hist.hasSaved
    /\ settings = [temperature |-> 12, maxLength |-> 500, useWebSocket |-> FALSE]
    /\ hist.saved = settings

\* C12: init leaves every key the stored object holds at the stored value and
\* every key it lacks at the hard-coded default; with nothing stored the
\* settings are the defaults.
C12_LoadMergesOntoDefaults ==
    last = "init" =>
        IF storage.kind = "json"
        THEN \A k \in Keys :
                settings[k] = IF k \in DOMAIN storage.obj THEN storage.obj[k]
                              ELSE DefaultSettings[k]
        ELSE settings = DefaultSettings

C12_Witness ==
    /\ last = "init" /\ storage.kind = "json"
    /\ DOMAIN storage.obj = {"maxLength", "useWebSocket"}
    /\ settings = [temperature |-> defaultTemperature, maxLength |-> 500,
                   useWebSocket |-> FALSE]

\* C13: in every reachable state the published status shows the persistent
\* transport as active exactly when the current channel is connected, and the
\* fallback otherwise (a channel in its closing handshake may show either).
C13_StatusMatchesChannel ==
    /\ websocket = "OPEN" => status = "websocket"
    /\ status = "websocket" => websocket \in {"OPEN", "CLOSING"}

\* C14: when the stored item cannot be decoded, init still completes: the
\* settings are the defaults, the listeners are installed and, the default
\* preference being persistent, the channel is being connected.
C14_CorruptSettingsIgnored ==
    (storage.kind = "corrupt" /\ last \in {"init", "init:threw"}) =>
        /\ pc = "ready"
        /\ settings = DefaultSettings
        /\ defaultUseWebSocket => websocket = "CONNECTING"

\* C15: a send over the persistent channel leaves the typing flag unchanged;
\* the flag changes only when an inbound typing event arrives or a fallback
\* round trip starts or ends; and the flag is true as long as a fallback
\* round trip is in flight.
C15_TypingDrivers ==
    /\ [][/\ (last' = "send:ws") => (isTyping' = isTyping)
          /\ (isTyping' # isTyping) =>
                (last' \in {"ws:typing", "orphan:typing", "send:rest", "send:wsThrew"}
                            \cup {"rest:" \o o : o \in RestOutcomes})]_vars
    /\ [](restInFlight > 0 => isTyping)

\* C16: a message event appends exactly one assistant message, whose content
\* is the response of the event, as the next entry of the log; a typing event
\* and an error event append nothing, the error event emitting exactly one
\* notice; a frame sent carries the text of the message with the temperature
\* and maxLength of the settings at the time of the send.
C16_EventsAndFrame ==
    [][/\ (last' = "ws:message") =>
             /\ messages' = Append(messages, [type |-> "bot",
                                               content |-> wire'[1].response])
             /\ notices' = 0
       /\ (last' = "ws:typing") => (messages' = messages /\ notices' = 0)
       /\ (last' = "ws:error") => (messages' = messages /\ notices' = 1)
       /\ (last' = "send:ws") =>
             wire' = <<[channel |-> "ws",
                        message |-> messages'[Len(messages')].content,
                        temperature |-> settings.temperature,
                        maxLength |-> settings.maxLength]>>]_vars

C16_Witness ==
    /\ last = "send:ws" /\ Len(messages) = 3
    /\ messages[2] = [type |-> "bot", content |-> "ok"]
    /\ wire[1].temperature = 12 /\ wire[1].maxLength = 500
    /\ settings.temperature = 12 /\ settings.maxLength = 500

\* C17: whenever the typing flag is true it eventually becomes false again,
\* also when the channel closes after typing(true) and before the reply.
C17_TypingEventuallyClears == isTyping ~> ~isTyping

\* C18: at most one reconnect timer is pending at any time, for any sequence
\* of closes, preference changes and timer firings.
C18_AtMostOneTimer == timers <= 1

\* C19: the peer replying only to messages it was sent, the log never holds
\* more assistant messages than user messages and its first entry, if any,
\* is a user message; also when a reset completes while a fallback round
\* trip is in flight and the reply arrives afterwards.
C19_RepliesFollowRequests ==
    /\ Cardinality({i \in DOMAIN messages : messages[i].type = "bot"})
          <= Cardinality({i \in DOMAIN messages : messages[i].type = "user"})
    /\ messages # <<>> => messages[1].type = "user"

====
